---- MODULE Spec2Model ----
(***************************************************************************)
(* A model of scan_combiner/scanner.py: one run of main() against an eSCL  *)
(* scanner (discovery, capability/status probe, job submission, the poll/  *)
(* retrieve loop, the final status check), the job lookup of _get_status   *)
(* and the region parser parse_region.                                     *)
(*                                                                         *)
(* Strings whose characters the code inspects (the job URI, the job uuids) *)
(* are sequences of one-character strings.  The transport is the           *)
(* environment: every response is chosen nondeterministically.             *)
(***************************************************************************)
EXTENDS Integers, Sequences, FiniteSets, TLC

VARIABLES
    pc,         \* position of main(): the next step to run, or "done"
    config,     \* ScannerConfig: [format, duplex, region], and filename:
                \* the path ScanJob writes to
    job_region, \* main's local region: <<>> for None, else <<ScanRegion>>
    discovery,  \* discover_scanner's wait: [polls, info, answers]
    props,      \* scanner_info.properties as advertised: [duplex]
    base_url,   \* ScannerClient.base_url: "" until discovery sets it
    npages,     \* transport: how many page payloads the job will serve
    served,     \* transport: how many page payloads it has served
    location,   \* transport: the Location header of the job-creation answer
    job_uri,    \* ScanJob.job_uri
    job_uuid,   \* ScanJob.job_uuid
    page,       \* the page counter of ScanJob.execute
    status,     \* pwg:State of the snapshot of the current poll iteration
    jobinfo,    \* jobinfo of _check_final_status: <<>> or <<record>>
    files,      \* the output directory: [name, data] for each file
    reqs,       \* the HTTP requests issued so far, with how each was answered
    raised,     \* the exception that ended the run, its message, the
                \* step that raised it and the heading main printed for it:
                \* [exc, msg, at, printed], exc = "none" while there is none
    fn_in,      \* input of the function under test (SpecLookup, SpecRegion)
    fn_out      \* its result

vars == <<pc, config, job_region, discovery, props, base_url, npages, served,
          location, job_uri,
          job_uuid, page, status, jobinfo, files, reqs, raised, fn_in,
          fn_out>>

----------------------------------------------------------------------------
(* Bounds *)

\* the most page payloads the transport serves before its 404
MaxPages == 2

\* the most colon-separated parts of a region string
MaxParts == 5

\* the most add_service callbacks during one discovery
MaxAnswers == 2

\* the most matching images, and the most matching PDFs, in the directory
MaxScans == 2

\* the most HTTP requests of one run: more than a run of MaxPages + 1 loop
\* iterations issues
MaxRequests == 12

----------------------------------------------------------------------------
(* Strings *)

StartsWith(s, p) == Len(s) >= Len(p) /\ SubSeq(s, 1, Len(p)) = p

\* the index of the last "/" of s, 0 when there is none
LastSlash(s) ==
    LET idx == {i \in 1..Len(s) : s[i] = "/"}
    IN  IF idx = {} THEN 0 ELSE CHOOSE i \in idx : \A j \in idx : j <= i

\* s.split('/')[-1]
LastSegment(s) == SubSeq(s, LastSlash(s) + 1, Len(s))

uuid_prefix == <<"u", "r", "n", ":", "u", "u", "i", "d", ":">>


----------------------------------------------------------------------------
(* Values of the protocol *)

\* Python's None, and a key that a mapping does not hold
None == "None"
Absent == "<absent>"

Success == "JobCompletedSuccessfully"
Canceled == "JobCanceledByUser"

\* pwg:State of a status document
DevStates == {"Idle", "Processing", "Stopped"}

\* pwg:JobUuid values the device reports
Uuids == { uuid_prefix \o <<"a">>, <<"a">>, uuid_prefix \o <<"b">> }

\* pwg:JobState values, Absent when the record has no such element
JobStates == {"Completed", "Aborted", "Processing", Absent}

\* pwg:JobStateReasons as xmltodict yields it: no such key, an empty element
\* (None), one pwg:JobStateReason (a string) or several (a list)
ReasonVals ==
    { [kind |-> "absent", vals |-> <<>>],
      [kind |-> "empty",  vals |-> <<>>],
      [kind |-> "single", vals |-> <<Success>>],
      [kind |-> "single", vals |-> <<Canceled>>],
      [kind |-> "list",   vals |-> <<Success, Canceled>>],
      [kind |-> "list",   vals |-> <<Canceled, Success>>] }

\* one scan:JobInfo record
JobInfos == [JobUuid : Uuids, JobState : JobStates, Reasons : ReasonVals]

\* the records of the device's other jobs, listed beside this run's
OtherJobs ==
    { [JobUuid |-> u, JobState |-> "Processing",
       Reasons |-> [kind |-> "single", vals |-> <<Canceled>>]] : u \in Uuids }

\* scan:Jobs of a status document: no such key, an empty element (None), or
\* the scan:JobInfo list that force_list yields for one job or several
JobsValues ==
    { [shape |-> "absent", list |-> <<>>], [shape |-> "empty", list |-> <<>>] }
    \cup { [shape |-> "list", list |-> <<a>>] : a \in JobInfos }
    \cup { [shape |-> "list", list |-> <<a, o>>] : a \in JobInfos, o \in OtherJobs }
    \cup { [shape |-> "list", list |-> <<o, a>>] : a \in JobInfos, o \in OtherJobs }

\* the answers to GET ScannerStatus: an error status, or a document
StatusResponses ==
    { [http |-> "error", State |-> "", Jobs |-> [shape |-> "absent", list |-> <<>>]] }
    \cup { [http |-> "ok", State |-> s, Jobs |-> j] : s \in DevStates, j \in JobsValues }

\* the services that may answer the browse for _uscan._tcp.local.: what
\* _setup_base_url makes of server, port and rs, and the TXT properties
Responders ==
    { [url |-> "http://a:80/eSCL", props |-> [duplex |-> "T"]],
      [url |-> "http://b:80/eSCL", props |-> [duplex |-> "F"]],
      [url |-> "http://c:80/eSCL", props |-> [duplex |-> Absent]] }

\* what zeroconf's get_service_info returns: None or a ServiceInfo
ServiceInfos == {<<>>} \cup {<<r>> : r \in Responders}

\* the listener before any callback and the loop before its first pass
NoDiscovery == [polls |-> 0, info |-> <<>>, answers |-> <<>>]

\* the path process_filename hands to ScanJob in a run
MainFilename == <<"s", ".", "j", "p", "g">>

\* the --region values of a run: none, a word that is no size, a paper size
MainRegions == { <<>>, << <<"f", "o", "o">> >>, << <<"a", "4">> >> }

\* the Location header of the answer to POST ScanJobs
Locations == { <<"/", "J", "/", "a">>, <<"/", "J", "/", "b">> }

----------------------------------------------------------------------------
(* ScannerClient *)

\* StripUuid that leaves the prefix on
StripUuid_Keep(current_uuid) == current_uuid

\* lines 192-196: the record's uuid with a leading "urn:uuid:" removed
StripUuid(current_uuid) ==
    IF StartsWith(current_uuid, uuid_prefix)
    THEN SubSeq(current_uuid, Len(uuid_prefix) + 1, Len(current_uuid))
    ELSE current_uuid

\* _get_status: what a status fetch answered by resp yields.  uuid is <<>>
\* for job_uuid = None and <<id>> otherwise.  exc is the exception raised
\* ("none": it returns), state the pwg:State, jobinfo <<>> or <<record>>.
GetStatus(resp, uuid) ==
    IF resp.http # "ok"
    THEN [exc |-> "HTTPError", state |-> "", jobinfo |-> <<>>]
    ELSE IF uuid = <<>>
    THEN [exc |-> "none", state |-> resp.State, jobinfo |-> <<>>]
    ELSE IF resp.Jobs.shape = "absent"
    THEN [exc |-> "KeyError", state |-> "", jobinfo |-> <<>>]
    ELSE IF resp.Jobs.shape = "empty"
    THEN [exc |-> "TypeError", state |-> "", jobinfo |-> <<>>]
    ELSE LET list == resp.Jobs.list
             hits == {i \in 1..Len(list) : StripUuid(list[i].JobUuid) = uuid[1]}
         IN  IF hits = {}
             THEN [exc |-> "ScanJobError", state |-> "", jobinfo |-> <<>>]
             ELSE [exc |-> "none", state |-> resp.State,
                   jobinfo |-> <<list[CHOOSE i \in hits : \A j \in hits : i <= j]>>]

\* ProbeChecks that takes only a device at work for busy
ProbeChecks_OnlyProcessingBusy(state, duplex, p) ==
    IF state = "Processing" THEN "ScannerBusyError"
    ELSE IF ~duplex THEN "none"
    ELSE IF p.duplex = Absent THEN "KeyError"
    ELSE IF p.duplex # "T" THEN "ScannerError"
    ELSE "none"

\* check_capabilities_and_status, lines 170-179: the exception the checks
\* raise for the probed pwg:State, "none" when the probe passes
ProbeChecks(state, duplex, p) ==
    IF state # "Idle" THEN "ScannerBusyError"
    ELSE IF ~duplex THEN "none"
    ELSE IF p.duplex = Absent THEN "KeyError"
    ELSE IF p.duplex # "T" THEN "ScannerError"
    ELSE "none"

\* GetNextDocument that takes every answer but 200 for "no more documents"
GetNextDocument_AnyErrorEnds(code, body) ==
    IF code # "200" THEN [exc |-> "none", data |-> <<>>]
    ELSE [exc |-> "none", data |-> <<body>>]

\* get_next_document: what a NextDocument fetch yields for the answer's status
\* code and body.  data is <<>> for None and <<content>> otherwise.
GetNextDocument(code, body) ==
    IF code = "404" THEN [exc |-> "none", data |-> <<>>]
    ELSE IF code # "200" THEN [exc |-> "HTTPError", data |-> <<>>]
    ELSE [exc |-> "none", data |-> <<body>>]

----------------------------------------------------------------------------
(* ScanJob *)

\* A file is named by the last component of its path, a sequence of
\* characters; all files of a run lie in one directory (Path.parent is
\* carried over unchanged, lines 294 and 417).

\* str.rfind('.') on a name: 0 when the name has no dot
LastDot(name) ==
    IF \E i \in 1..Len(name) : name[i] = "."
    THEN CHOOSE i \in 1..Len(name) :
            name[i] = "." /\ \A j \in (i + 1)..Len(name) : name[j] # "."
    ELSE 0

\* PurePath.suffix: from the last dot on, unless that dot is the first or
\* the last character of the name
PathSuffix(name) ==
    IF 1 < LastDot(name) /\ LastDot(name) < Len(name)
    THEN SubSeq(name, LastDot(name), Len(name))
    ELSE <<>>

\* PurePath.stem: the name without its suffix
PathStem(name) ==
    IF 1 < LastDot(name) /\ LastDot(name) < Len(name)
    THEN SubSeq(name, 1, LastDot(name) - 1)
    ELSE name

\* str(n) for n >= 0, as f"{page}" and f"{counter}" format it
RECURSIVE IntToStr(_)
IntToStr(n) ==
    LET digit == <<"0", "1", "2", "3", "4", "5", "6", "7", "8", "9">>[(n % 10) + 1]
    IN  IF n < 10 THEN <<digit>> ELSE IntToStr(n \div 10) \o <<digit>>

\* PageFilename that puts the page number after the suffix
PageFilename_AfterSuffix(filename, pg) ==
    filename \o <<"-">> \o IntToStr(pg)

\* lines 292-294: f"{basename}-{page}{suffix}" beside self.filename
PageFilename(filename, pg) ==
    PathStem(filename) \o <<"-">> \o IntToStr(pg) \o PathSuffix(filename)

\* the file _save_document opens: self.filename in pdf format, the page
\* file otherwise
SaveTarget(filename, format, pg) ==
    IF format = "pdf" THEN filename ELSE PageFilename(filename, pg)

\* _save_document: the directory after open(..., 'wb') and write(data)
SaveDocument(fs, filename, format, data, pg) ==
    {f \in fs : f.name # SaveTarget(filename, format, pg)}
    \cup {[name |-> SaveTarget(filename, format, pg), data |-> data]}

\* AfterFetch with the state test inverted
AfterFetch_StopWhileProcessing(data, state) ==
    IF data = <<>> THEN "final"
    ELSE IF state = "Processing" THEN "final"
    ELSE "poll"

\* AfterFetch that goes round again when no document is left
AfterFetch_RetryOn404(data, state) ==
    IF data = <<>> THEN "poll"
    ELSE IF state # "Processing" THEN "final"
    ELSE "poll"

\* AfterFetch that fetches the next document without a new snapshot
AfterFetch_NoRepoll(data, state) ==
    IF data = <<>> THEN "final"
    ELSE IF state # "Processing" THEN "final"
    ELSE "fetch"

\* AfterFetch that lets a device at work outweigh the missing document
AfterFetch_StateFirst(data, state) ==
    IF state = "Processing" THEN "poll"
    ELSE "final"

\* AfterFetch that always goes round again
AfterFetch_Endless(data, state) == "poll"

\* execute, lines 272-280: where the loop goes after a fetch that yielded
\* data, under the snapshot state of this iteration
AfterFetch(data, state) ==
    IF data = <<>> THEN "final"
    ELSE IF state # "Processing" THEN "final"
    ELSE "poll"

\* ExtractJobReason that takes the last of several reasons
ExtractJobReason_Last(ji) ==
    IF ji.Reasons.kind \in {"absent", "empty"} THEN None
    ELSE ji.Reasons.vals[Len(ji.Reasons.vals)]

\* _extract_job_reason
ExtractJobReason(ji) ==
    IF ji.Reasons.kind \in {"absent", "empty"} THEN None
    ELSE ji.Reasons.vals[1]

\* CheckFinalStatus that fails an unfinished job also when no reason is given
CheckFinalStatus_FailsWithoutReason(ji) ==
    LET job_reason == ExtractJobReason(ji)
        job_state  == IF ji.JobState = Absent THEN "Unknown" ELSE ji.JobState
    IN  IF job_reason # Success
           /\ job_state \notin {"Completed", "Aborted"}
        THEN [exc |-> "ScanJobError",
              msg |-> IF job_reason # None THEN job_reason ELSE job_state]
        ELSE [exc |-> "none", msg |-> ""]

\* _check_final_status, lines 303-309: the exception it raises for the job
\* record found ("none": it returns) and the message it carries
CheckFinalStatus(ji) ==
    LET job_reason == ExtractJobReason(ji)
        job_state  == IF ji.JobState = Absent THEN "Unknown" ELSE ji.JobState
    IN  IF job_reason # Success
           /\ job_state \notin {"Completed", "Aborted"}
           /\ job_reason # None
        THEN [exc |-> "ScanJobError",
              msg |-> IF job_reason # None THEN job_reason ELSE job_state]
        ELSE [exc |-> "none", msg |-> ""]

----------------------------------------------------------------------------
(* One run of main() *)

NoException == [exc |-> "none", msg |-> "", at |-> "", printed |-> ""]

Init ==
    /\ pc = "region"
    /\ config \in [format : {"pdf", "jpeg"}, duplex : BOOLEAN,
                   region : MainRegions, filename : {MainFilename}]
    /\ job_region = <<>>
    /\ discovery = NoDiscovery
    /\ props = [duplex |-> Absent]
    /\ base_url = ""
    /\ npages = 0
    /\ served = 0
    /\ location = <<>>
    /\ job_uri = <<>>
    /\ job_uuid = <<>>
    /\ page = 0
    /\ status = ""
    /\ jobinfo = <<>>
    /\ files = {}
    /\ reqs = <<>>
    /\ raised = NoException
    /\ fn_in = <<>>
    /\ fn_out = <<>>

\* the request req, issued at this step and answered resp, joins the log
Log(req, resp) ==
    /\ Len(reqs) < MaxRequests
    /\ reqs' = Append(reqs, [at |-> pc, req |-> req, resp |-> resp])

\* the message of an exception raised by name alone
Message(exc) ==
    CASE exc = "ScannerNotFoundError" -> "No scanner found"
      [] exc = "ScannerBusyError"     -> "Scanner is not idle"
      [] exc = "ScannerError"         -> "Duplex not supported"
      [] exc = "ScanJobError"         -> "Job not found"
      [] OTHER                        -> ""

\* main, lines 457-473: the heading of the first except clause that takes
\* the exception.  ScannerNotFoundError, ScannerBusyError and ScanJobError
\* are subclasses of ScannerError (lines 23-40) and are listed before it.
Handler(exc) ==
    CASE exc = "ScannerNotFoundError" -> "Scanner Discovery Error"
      [] exc = "ScannerBusyError"     -> "Scanner Availability Error"
      [] exc = "ScanJobError"         -> "Scan Job Error"
      [] exc = "ScannerError"         -> "Scanner Configuration Error"
      [] OTHER                        -> "Unexpected Error"

\* the exception exc with message msg, raised at this step and handled
Raised(exc, msg) ==
    [exc |-> exc, msg |-> msg, at |-> pc, printed |-> Handler(exc)]

\* an exception leaves main() through its handlers: the run is over
Raise(exc) ==
    /\ pc' = "done"
    /\ raised' = Raised(exc, Message(exc))

\* range(100), line 124
DiscoveryPolls == 100

\* DiscoverPoll whose loop makes one pass more
DiscoverPoll_OneMore ==
    /\ pc = "discover"
    /\ discovery.polls < DiscoveryPolls + 1
    /\ discovery' = [discovery EXCEPT !.polls = @ + 1]
    /\ pc' = IF discovery.info # <<>> \/ discovery.polls + 1 = DiscoveryPolls + 1
             THEN "discover_close"
             ELSE "discover"
    /\ UNCHANGED <<config, job_region, props, base_url, npages, served,
                   location, job_uri, job_uuid, page, status, jobinfo, files,
                   reqs, raised, fn_in, fn_out>>

\* discover_scanner, lines 124-127: one pass of the wait loop.  It looks at
\* listener.info and leaves the loop if it is set; otherwise it sleeps, and
\* the loop is over after DiscoveryPolls passes.
DiscoverPoll ==
    /\ pc = "discover"
    /\ discovery.polls < DiscoveryPolls
    /\ discovery' = [discovery EXCEPT !.polls = @ + 1]
    /\ pc' = IF discovery.info # <<>> \/ discovery.polls + 1 = DiscoveryPolls
             THEN "discover_close"
             ELSE "discover"
    /\ UNCHANGED <<config, job_region, props, base_url, npages, served, location,
                   job_uri, job_uuid, page, status, jobinfo, files, reqs,
                   raised, fn_in, fn_out>>

\* ZCListener.add_service, lines 118-119, called on the browser's thread
\* for a service that shows up while the Zeroconf instance is open: between
\* two passes of the loop, or after the last pass and before the with block
\* closes.  The assignment replaces whatever the listener held.
AddService ==
    /\ pc \in {"discover", "discover_close"}
    /\ Len(discovery.answers) < MaxAnswers
    /\ \E a \in ServiceInfos :
          discovery' = [discovery EXCEPT !.info = a,
                                         !.answers = Append(@, a)]
    /\ UNCHANGED <<pc, config, job_region, props, base_url, npages, served,
                   location, job_uri, job_uuid, page, status, jobinfo, files,
                   reqs, raised, fn_in, fn_out>>

\* discover_scanner, lines 129-136, after the with block closed Zeroconf:
\* no info raises, an info is adopted and the base URL set from it
DiscoverClose ==
    /\ pc = "discover_close"
    /\ IF discovery.info = <<>>
       THEN /\ Raise("ScannerNotFoundError")
            /\ UNCHANGED <<props, base_url, discovery>>
       ELSE /\ props' = discovery.info[1].props
            /\ base_url' = discovery.info[1].url
            /\ discovery' = NoDiscovery
            /\ pc' = "caps"
            /\ UNCHANGED raised
    /\ UNCHANGED <<config, job_region, npages, served, location, job_uri,
                   job_uuid, page, status, jobinfo, files, reqs, fn_in,
                   fn_out>>

\* check_capabilities_and_status, lines 165-166
Capabilities ==
    /\ pc = "caps"
    /\ \E code \in {"200", "404", "500"} :
          /\ Log("GET ScannerCapabilities", code)
          /\ IF code = "200" THEN pc' = "probe" /\ UNCHANGED raised
             ELSE Raise("HTTPError")
    /\ UNCHANGED <<config, job_region, discovery,
                   props, base_url, npages, served, location, job_uri,
                   job_uuid, page, status, jobinfo, files, fn_in, fn_out>>

\* check_capabilities_and_status, lines 169-179
Probe ==
    /\ pc = "probe"
    /\ \E resp \in StatusResponses :
          LET r == GetStatus(resp, <<>>)
              e == IF r.exc # "none" THEN r.exc
                   ELSE ProbeChecks(r.state, config.duplex, props)
          IN  /\ Log("GET ScannerStatus", IF r.exc # "none" THEN r.exc ELSE r.state)
              /\ IF e = "none" THEN pc' = "submit" /\ UNCHANGED raised
                 ELSE Raise(e)
    /\ UNCHANGED <<config, job_region, discovery,
                   props, base_url, npages, served, location, job_uri,
                   job_uuid, page, status, jobinfo, files, fn_in, fn_out>>

\* execute, lines 262-266, with create_scan_job
Submit ==
    /\ pc = "submit"
    /\ \/ \E code \in {"404", "500"} :
          /\ Log("POST ScanJobs", code)
          /\ Raise("HTTPError")
          /\ UNCHANGED <<npages, location, job_uri, job_uuid, page>>
       \/ \E loc \in Locations, n \in 0..MaxPages :
          /\ Log("POST ScanJobs", "201")
          /\ npages' = n
          /\ location' = loc
          /\ job_uri' = loc
          /\ job_uuid' = LastSegment(loc)
          /\ page' = 1
          /\ pc' = "poll"
          /\ UNCHANGED raised
    /\ UNCHANGED <<config, job_region, discovery,
                   props, base_url, served, status, jobinfo,
                   files, fn_in, fn_out>>

\* PollStatus that keeps the snapshot of the first iteration
PollStatus_Cached ==
    /\ pc = "poll"
    /\ \E resp \in StatusResponses :
          LET r == GetStatus(resp, <<job_uuid>>)
          IN  /\ Log("GET ScannerStatus", IF r.exc # "none" THEN r.exc ELSE r.state)
              /\ IF r.exc = "none"
                 THEN /\ status' = IF status = "" THEN r.state ELSE status
                      /\ pc' = "fetch"
                      /\ UNCHANGED raised
                 ELSE /\ Raise(r.exc)
                      /\ UNCHANGED status
    /\ UNCHANGED <<config, job_region, discovery, props, base_url, npages,
                   served, location, job_uri, job_uuid, page, jobinfo, files,
                   fn_in, fn_out>>

\* execute, line 268.  The jobinfo this call returns is bound to a local of
\* execute that nothing reads.
PollStatus ==
    /\ pc = "poll"
    /\ \E resp \in StatusResponses :
          LET r == GetStatus(resp, <<job_uuid>>)
          IN  /\ Log("GET ScannerStatus", IF r.exc # "none" THEN r.exc ELSE r.state)
              /\ IF r.exc = "none"
                 THEN /\ status' = r.state
                      /\ pc' = "fetch"
                      /\ UNCHANGED raised
                 ELSE /\ Raise(r.exc)
                      /\ UNCHANGED status
    /\ UNCHANGED <<config, job_region, discovery,
                   props, base_url, npages, served, location, job_uri,
                   job_uuid, page, jobinfo, files, fn_in, fn_out>>

\* FetchDocument that clears the output directory when the fetch raises
FetchDocument_Rollback ==
    /\ pc = "fetch"
    /\ \E code \in {IF served < npages THEN "200" ELSE "404", "500"} :
          LET r == GetNextDocument(code, served + 1)
          IN  /\ Log("GET NextDocument", code)
              /\ served' = IF code = "200" THEN served + 1 ELSE served
              /\ IF r.exc # "none"
                 THEN /\ Raise(r.exc)
                      /\ files' = {}
                      /\ UNCHANGED page
                 ELSE /\ pc' = AfterFetch(r.data, status)
                      /\ UNCHANGED raised
                      /\ IF r.data = <<>>
                         THEN UNCHANGED <<files, page>>
                         ELSE /\ files' = SaveDocument(files, config.filename,
                                                    config.format, r.data[1], page)
                              /\ page' = page + 1
    /\ UNCHANGED <<config, job_region, discovery, props, base_url, npages,
                   location, job_uri, job_uuid, status, jobinfo, fn_in, fn_out>>

\* execute, lines 271-281.  The transport serves its next payload, or 404
\* once all npages are served, or fails.
FetchDocument ==
    /\ pc = "fetch"
    /\ \E code \in {IF served < npages THEN "200" ELSE "404", "500"} :
          LET r == GetNextDocument(code, served + 1)
          IN  /\ Log("GET NextDocument", code)
              /\ served' = IF code = "200" THEN served + 1 ELSE served
              /\ IF r.exc # "none"
                 THEN /\ Raise(r.exc)
                      /\ UNCHANGED <<files, page>>
                 ELSE /\ pc' = AfterFetch(r.data, status)
                      /\ UNCHANGED raised
                      /\ IF r.data = <<>>
                         THEN UNCHANGED <<files, page>>
                         ELSE /\ files' = SaveDocument(files, config.filename,
                                                    config.format, r.data[1], page)
                              /\ page' = page + 1
    /\ UNCHANGED <<config, job_region, discovery,
                   props, base_url, npages, location, job_uri, job_uuid,
                   status, jobinfo, fn_in, fn_out>>

\* _check_final_status
Finalize ==
    /\ pc = "final"
    /\ \E resp \in StatusResponses :
          LET r == GetStatus(resp, <<job_uuid>>)
          IN  /\ Log("GET ScannerStatus", IF r.exc # "none" THEN r.exc ELSE r.state)
              /\ pc' = "done"
              /\ IF r.exc = "none"
                 THEN /\ status' = r.state
                      /\ jobinfo' = r.jobinfo
                      /\ raised' = LET f == CheckFinalStatus(r.jobinfo[1])
                                    IN  IF f.exc = "none" THEN NoException
                                        ELSE Raised(f.exc, f.msg)
                 ELSE /\ raised' = Raised(r.exc, Message(r.exc))
                      /\ UNCHANGED <<status, jobinfo>>
    /\ UNCHANGED <<config, job_region, discovery,
                   props, base_url, npages, served, location, job_uri,
                   job_uuid, page, files, fn_in, fn_out>>

----------------------------------------------------------------------------
(* The job lookup of _get_status on its own: a job is created, its          *)
(* identifier derived, and one status fetch with that identifier is made.   *)

\* pwg:JobUuid values: with the prefix, without, the bare prefix, the prefix
\* twice, and the prefix not at the start
LookupUuids ==
    Uuids \cup { uuid_prefix,
                 uuid_prefix \o uuid_prefix \o <<"a">>,
                 <<"x">> \o uuid_prefix \o <<"a">> }

LookupJobInfos ==
    { [JobUuid |-> u, JobState |-> "Processing",
       Reasons |-> [kind |-> "absent", vals |-> <<>>]] : u \in LookupUuids }

\* status documents of zero, one, two and three jobs, and an error answer
LookupResponses ==
    { [http |-> "error", State |-> "", Jobs |-> [shape |-> "absent", list |-> <<>>]] }
    \cup { [http |-> "ok", State |-> "Processing", Jobs |-> j] :
             j \in { [shape |-> "absent", list |-> <<>>],
                      [shape |-> "empty", list |-> <<>>] }
                   \cup { [shape |-> "list", list |-> <<a>>] : a \in LookupJobInfos }
                   \cup { [shape |-> "list", list |-> <<a, b>>] :
                            a \in LookupJobInfos, b \in LookupJobInfos }
                   \cup { [shape |-> "list", list |-> <<a, b, c>>] :
                            a \in LookupJobInfos, b \in LookupJobInfos,
                            c \in LookupJobInfos } }

\* Location headers: also one that ends in a slash and one without any
LookupLocations ==
    Locations \cup { <<"/", "J", "/", "a", "/">>, <<"a">> }

\* the run's variables while a function is examined on its own
RunIdle ==
    /\ config = [format |-> "pdf", duplex |-> FALSE, region |-> <<>>,
                 filename |-> MainFilename]
    /\ job_region = <<>>
    /\ discovery = NoDiscovery
    /\ props = [duplex |-> Absent]
    /\ base_url = ""
    /\ npages = 0
    /\ served = 0
    /\ location = <<>>
    /\ job_uri = <<>>
    /\ job_uuid = <<>>
    /\ page = 0
    /\ status = ""
    /\ jobinfo = <<>>
    /\ files = {}
    /\ reqs = <<>>
    /\ raised = NoException

InitLookup ==
    /\ pc = "lookup_submit"
    /\ RunIdle
    /\ fn_in \in [location : LookupLocations, resp : LookupResponses]
    /\ fn_out = <<>>

\* execute, lines 262-263: the job URI and the identifier derived from it
LookupSubmit ==
    /\ pc = "lookup_submit"
    /\ location' = fn_in.location
    /\ job_uri' = fn_in.location
    /\ job_uuid' = LastSegment(fn_in.location)
    /\ pc' = "lookup_status"
    /\ UNCHANGED <<config, job_region, discovery,
                   props, base_url, npages, served, page, status,
                   jobinfo, files, reqs, raised, fn_in, fn_out>>

\* get_job_status(self.job_uuid), answered fn_in.resp
LookupStatus ==
    /\ pc = "lookup_status"
    /\ fn_out' = <<GetStatus(fn_in.resp, <<job_uuid>>)>>
    /\ pc' = "done"
    /\ UNCHANGED <<config, job_region, discovery,
                   props, base_url, npages, served, location, job_uri,
                   job_uuid, page, status, jobinfo, files, reqs, raised, fn_in>>

NextLookup == LookupSubmit \/ LookupStatus

SpecLookup == InitLookup /\ [][NextLookup]_vars

----------------------------------------------------------------------------
(* parse_region and the papersize library it calls.  A decimal.Decimal is   *)
(* an exact fraction [n, d] with d > 0, kept in lowest terms; the rounding  *)
(* of decimal's 28-digit context is not modelled.                          *)

RECURSIVE GCD(_, _)
GCD(a, b) == IF b = 0 THEN a ELSE GCD(b, a % b)

Abs(n) == IF n < 0 THEN -n ELSE n

\* the fraction n/d in lowest terms
Rat(n, d) == LET g == GCD(Abs(n), d) IN [n |-> n \div g, d |-> d \div g]

\* Decimal * Decimal, cancelling across before multiplying
RatMul(a, b) ==
    LET g1 == GCD(Abs(a.n), b.d)
        g2 == GCD(Abs(b.n), a.d)
    IN  IF a.n = 0 \/ b.n = 0 THEN [n |-> 0, d |-> 1]
        ELSE [n |-> (a.n \div g1) * (b.n \div g2), d |-> (a.d \div g2) * (b.d \div g1)]

\* Decimal / Decimal, for b > 0
RatDiv(a, b) == RatMul(a, [n |-> b.d, d |-> b.n])

\* int(Decimal): towards zero
TruncInt(a) == IF a.n >= 0 THEN a.n \div a.d ELSE -((-a.n) \div a.d)

\* str.lower() on one character
LowerChar(c) ==
    CASE c = "A" -> "a"
      [] c = "B" -> "b"
      [] c = "C" -> "c"
      [] c = "D" -> "d"
      [] c = "E" -> "e"
      [] c = "F" -> "f"
      [] c = "G" -> "g"
      [] c = "H" -> "h"
      [] c = "I" -> "i"
      [] c = "J" -> "j"
      [] c = "K" -> "k"
      [] c = "L" -> "l"
      [] c = "M" -> "m"
      [] c = "N" -> "n"
      [] c = "O" -> "o"
      [] c = "P" -> "p"
      [] c = "Q" -> "q"
      [] c = "R" -> "r"
      [] c = "S" -> "s"
      [] c = "T" -> "t"
      [] c = "U" -> "u"
      [] c = "V" -> "v"
      [] c = "W" -> "w"
      [] c = "X" -> "x"
      [] c = "Y" -> "y"
      [] c = "Z" -> "z"
      [] OTHER -> c

\* str.lower()
Lower(str) == [i \in 1..Len(str) |-> LowerChar(str[i])]

DigitChars == {"0", "1", "2", "3", "4", "5", "6", "7", "8", "9"}

DigitValue(c) ==
    CASE c = "0" -> 0
      [] c = "1" -> 1
      [] c = "2" -> 2
      [] c = "3" -> 3
      [] c = "4" -> 4
      [] c = "5" -> 5
      [] c = "6" -> 6
      [] c = "7" -> 7
      [] c = "8" -> 8
      [] c = "9" -> 9

RECURSIVE DigitsToInt(_)
DigitsToInt(ds) ==
    IF ds = <<>> THEN 0
    ELSE 10 * DigitsToInt(SubSeq(ds, 1, Len(ds) - 1)) + DigitValue(ds[Len(ds)])

RECURSIVE Pow10(_)
Pow10(k) == IF k = 0 THEN 1 ELSE 10 * Pow10(k - 1)

\* str.split(sep) for a one-character sep
RECURSIVE Split(_, _)
Split(str, sep) ==
    LET idx == {i \in 1..Len(str) : str[i] = sep}
    IN  IF idx = {} THEN <<str>>
        ELSE LET i == CHOOSE i \in idx : \A j \in idx : i <= j
             IN  <<SubSeq(str, 1, i - 1)>> \o Split(SubSeq(str, i + 1, Len(str)), sep)

\* the unit names of papersize.UNITS that the inputs use; "" stands for pt
UnitNames == { <<>>, <<"p", "t">>, <<"m", "m">>, <<"c", "m">>, <<"i", "n">> }

\* UNITS with the 72 points to the inch of PostScript
UNITS_BigPoint(unit) ==
    CASE unit = <<"i", "n">> -> Rat(72, 1)
      [] unit = <<"m", "m">> -> RatDiv(Rat(72, 1), Rat(254, 10))
      [] unit = <<"c", "m">> -> RatDiv(Rat(72, 1), Rat(254, 100))
      [] OTHER               -> Rat(1, 1)

\* papersize.UNITS: the length of one unit in points
UNITS(unit) ==
    CASE unit = <<"i", "n">> -> Rat(7227, 100)
      [] unit = <<"m", "m">> -> RatDiv(Rat(7227, 100), Rat(254, 10))
      [] unit = <<"c", "m">> -> RatDiv(Rat(7227, 100), Rat(254, 100))
      [] OTHER               -> Rat(1, 1)

\* ParseLength that takes a unit it does not know for points
ParseLength_AnyUnit(token) ==
    LET stops == {i \in 1..Len(token) : token[i] \notin DigitChars \cup {"."}}
        k     == IF stops = {} THEN Len(token)
                 ELSE (CHOOSE i \in stops : \A j \in stops : i <= j) - 1
        num   == SubSeq(token, 1, k)
        unit  == SubSeq(token, k + 1, Len(token))
        dots  == {i \in 1..k : num[i] = "."}
        digs  == SelectSeq(num, LAMBDA c : c # ".")
        frac  == IF dots = {} THEN 0 ELSE k - (CHOOSE i \in dots : TRUE)
    IN  IF digs = <<>> \/ Cardinality(dots) > 1
        THEN [ok |-> FALSE, val |-> Rat(0, 1)]
        ELSE [ok |-> TRUE,
              val |-> RatMul(Rat(DigitsToInt(digs), Pow10(frac)), UNITS(unit))]

\* papersize.parse_length: a number, digits with at most one point among
\* them, then a unit name; ok is FALSE where it raises CouldNotParse
ParseLength(token) ==
    LET stops == {i \in 1..Len(token) : token[i] \notin DigitChars \cup {"."}}
        k     == IF stops = {} THEN Len(token)
                 ELSE (CHOOSE i \in stops : \A j \in stops : i <= j) - 1
        num   == SubSeq(token, 1, k)
        unit  == SubSeq(token, k + 1, Len(token))
        dots  == {i \in 1..k : num[i] = "."}
        digs  == SelectSeq(num, LAMBDA c : c # ".")
        frac  == IF dots = {} THEN 0 ELSE k - (CHOOSE i \in dots : TRUE)
    IN  IF digs = <<>> \/ Cardinality(dots) > 1 \/ unit \notin UnitNames
        THEN [ok |-> FALSE, val |-> Rat(0, 1)]
        ELSE [ok |-> TRUE,
              val |-> RatMul(Rat(DigitsToInt(digs), Pow10(frac)), UNITS(unit))]

\* papersize.SIZES: the named sizes, each with its width and height
SIZES ==
    { [name |-> <<"a", "0">>, w |-> <<"8", "4", "1", "m", "m">>, h |-> <<"1", "1", "8", "9", "m", "m">>],
      [name |-> <<"a", "1">>, w |-> <<"5", "9", "4", "m", "m">>, h |-> <<"8", "4", "1", "m", "m">>],
      [name |-> <<"a", "2">>, w |-> <<"4", "2", "0", "m", "m">>, h |-> <<"5", "9", "4", "m", "m">>],
      [name |-> <<"a", "3">>, w |-> <<"2", "9", "7", "m", "m">>, h |-> <<"4", "2", "0", "m", "m">>],
      [name |-> <<"a", "4">>, w |-> <<"2", "1", "0", "m", "m">>, h |-> <<"2", "9", "7", "m", "m">>],
      [name |-> <<"a", "5">>, w |-> <<"1", "4", "8", "m", "m">>, h |-> <<"2", "1", "0", "m", "m">>],
      [name |-> <<"a", "6">>, w |-> <<"1", "0", "5", "m", "m">>, h |-> <<"1", "4", "8", "m", "m">>],
      [name |-> <<"a", "7">>, w |-> <<"7", "4", "m", "m">>, h |-> <<"1", "0", "5", "m", "m">>],
      [name |-> <<"a", "8">>, w |-> <<"5", "2", "m", "m">>, h |-> <<"7", "4", "m", "m">>],
      [name |-> <<"a", "9">>, w |-> <<"3", "7", "m", "m">>, h |-> <<"5", "2", "m", "m">>],
      [name |-> <<"a", "1", "0">>, w |-> <<"2", "6", "m", "m">>, h |-> <<"3", "7", "m", "m">>],
      [name |-> <<"b", "0">>, w |-> <<"1", "0", "0", "0", "m", "m">>, h |-> <<"1", "4", "1", "4", "m", "m">>],
      [name |-> <<"b", "1">>, w |-> <<"7", "0", "7", "m", "m">>, h |-> <<"1", "0", "0", "0", "m", "m">>],
      [name |-> <<"b", "2">>, w |-> <<"5", "0", "0", "m", "m">>, h |-> <<"7", "0", "7", "m", "m">>],
      [name |-> <<"b", "3">>, w |-> <<"3", "5", "3", "m", "m">>, h |-> <<"5", "0", "0", "m", "m">>],
      [name |-> <<"b", "4">>, w |-> <<"2", "5", "0", "m", "m">>, h |-> <<"3", "5", "3", "m", "m">>],
      [name |-> <<"b", "5">>, w |-> <<"1", "7", "6", "m", "m">>, h |-> <<"2", "5", "0", "m", "m">>],
      [name |-> <<"b", "6">>, w |-> <<"1", "2", "5", "m", "m">>, h |-> <<"1", "7", "6", "m", "m">>],
      [name |-> <<"b", "7">>, w |-> <<"8", "8", "m", "m">>, h |-> <<"1", "2", "5", "m", "m">>],
      [name |-> <<"b", "8">>, w |-> <<"6", "2", "m", "m">>, h |-> <<"8", "8", "m", "m">>],
      [name |-> <<"b", "9">>, w |-> <<"4", "4", "m", "m">>, h |-> <<"6", "2", "m", "m">>],
      [name |-> <<"b", "1", "0">>, w |-> <<"3", "1", "m", "m">>, h |-> <<"4", "4", "m", "m">>],
      [name |-> <<"c", "0">>, w |-> <<"9", "1", "7", "m", "m">>, h |-> <<"1", "2", "9", "7", "m", "m">>],
      [name |-> <<"c", "1">>, w |-> <<"6", "4", "8", "m", "m">>, h |-> <<"9", "1", "7", "m", "m">>],
      [name |-> <<"c", "2">>, w |-> <<"4", "5", "8", "m", "m">>, h |-> <<"6", "4", "8", "m", "m">>],
      [name |-> <<"c", "3">>, w |-> <<"3", "2", "4", "m", "m">>, h |-> <<"4", "5", "8", "m", "m">>],
      [name |-> <<"c", "4">>, w |-> <<"2", "2", "9", "m", "m">>, h |-> <<"3", "2", "4", "m", "m">>],
      [name |-> <<"c", "5">>, w |-> <<"1", "6", "2", "m", "m">>, h |-> <<"2", "2", "9", "m", "m">>],
      [name |-> <<"c", "6">>, w |-> <<"1", "1", "4", "m", "m">>, h |-> <<"1", "6", "2", "m", "m">>],
      [name |-> <<"c", "7">>, w |-> <<"8", "1", "m", "m">>, h |-> <<"1", "1", "4", "m", "m">>],
      [name |-> <<"c", "8">>, w |-> <<"5", "7", "m", "m">>, h |-> <<"8", "1", "m", "m">>],
      [name |-> <<"c", "9">>, w |-> <<"4", "0", "m", "m">>, h |-> <<"5", "7", "m", "m">>],
      [name |-> <<"c", "1", "0">>, w |-> <<"2", "8", "m", "m">>, h |-> <<"4", "0", "m", "m">>],
      [name |-> <<"l", "e", "t", "t", "e", "r">>, w |-> <<"8", ".", "5", "i", "n">>, h |-> <<"1", "1", "i", "n">>],
      [name |-> <<"l", "e", "g", "a", "l">>, w |-> <<"8", ".", "5", "i", "n">>, h |-> <<"1", "4", "i", "n">>],
      [name |-> <<"e", "x", "e", "c", "u", "t", "i", "v", "e">>, w |-> <<"7", ".", "2", "5", "i", "n">>, h |-> <<"1", "0", ".", "5", "i", "n">>],
      [name |-> <<"t", "a", "b", "l", "o", "i", "d">>, w |-> <<"1", "1", "i", "n">>, h |-> <<"1", "7", "i", "n">>],
      [name |-> <<"s", "t", "a", "t", "e", "m", "e", "n", "t">>, w |-> <<"5", ".", "5", "i", "n">>, h |-> <<"8", ".", "5", "i", "n">>],
      [name |-> <<"h", "a", "l", "f", "l", "e", "t", "t", "e", "r">>, w |-> <<"5", ".", "5", "i", "n">>, h |-> <<"8", ".", "5", "i", "n">>],
      [name |-> <<"f", "o", "l", "i", "o">>, w |-> <<"8", "i", "n">>, h |-> <<"1", "3", "i", "n">>] }

SizeNames == {sz.name : sz \in SIZES}

\* papersize.parse_papersize for a name of SIZES: (width, height) in points
ParsePapersize(name) ==
    LET sz == CHOOSE sz \in SIZES : sz.name = name
    IN  <<ParseLength(sz.w).val, ParseLength(sz.h).val>>

\* line 350: papersize.UNITS['in'] / 300
DeviceUnit == RatDiv(UNITS(<<"i", "n">>), Rat(300, 1))

\* ToDeviceUnits that rounds to the nearest unit
ToDeviceUnits_Rounded(v) ==
    LET q == RatDiv(v, DeviceUnit) IN (2 * q.n + q.d) \div (2 * q.d)

\* line 351: int(v / c)
ToDeviceUnits(v) == TruncInt(RatDiv(v, DeviceUnit))

\* parse_region: exc is "none" and region <<ScanRegion>> when it returns,
\* exc the exception and region <<>> when it raises
ParseRegion(region) ==
    LET region_str == Lower(region)
        failed == [exc |-> "ScannerError", region |-> <<>>]
        done(x, y, w, h) ==
            [exc |-> "none",
             region |-> <<[x |-> ToDeviceUnits(x), y |-> ToDeviceUnits(y),
                           width |-> ToDeviceUnits(w), height |-> ToDeviceUnits(h)]>>]
    IN  IF region_str \in SizeNames
        THEN LET paper_size == ParsePapersize(region_str)
             IN  done(Rat(0, 1), Rat(0, 1), paper_size[1], paper_size[2])
        ELSE LET parts == Split(region_str, ":")
             IN  IF Len(parts) # 4 THEN failed
                 ELSE LET lens == [i \in 1..4 |-> ParseLength(parts[i])]
                      IN  IF \E i \in 1..4 : ~lens[i].ok THEN failed
                          ELSE done(lens[1].val, lens[2].val, lens[3].val, lens[4].val)

\* str.upper() on one character
UpperChar(c) ==
    CASE c = "a" -> "A"
      [] c = "b" -> "B"
      [] c = "c" -> "C"
      [] c = "d" -> "D"
      [] c = "e" -> "E"
      [] c = "f" -> "F"
      [] c = "g" -> "G"
      [] c = "h" -> "H"
      [] c = "i" -> "I"
      [] c = "j" -> "J"
      [] c = "k" -> "K"
      [] c = "l" -> "L"
      [] c = "m" -> "M"
      [] c = "n" -> "N"
      [] c = "o" -> "O"
      [] c = "p" -> "P"
      [] c = "q" -> "Q"
      [] c = "r" -> "R"
      [] c = "s" -> "S"
      [] c = "t" -> "T"
      [] c = "u" -> "U"
      [] c = "v" -> "V"
      [] c = "w" -> "W"
      [] c = "x" -> "X"
      [] c = "y" -> "Y"
      [] c = "z" -> "Z"
      [] OTHER -> c

\* lengths that papersize.parse_length parses, and tokens that it does not
RectTokens ==
    { <<"1", "c", "m">>,
      <<"1", ".", "5", "c", "m">>,
      <<"2", "c", "m">>,
      <<"5", "c", "m">>,
      <<"1", "0", "c", "m">>,
      <<"2", "0", "c", "m">>,
      <<"1", "0", "m", "m">>,
      <<"8", ".", "5", "i", "n">>,
      <<"3", "6", "p", "t">> }

BadTokens == { <<"w", "i", "d", "e">>, <<"2", "x", "x">> }

\* ":".join(parts)
RECURSIVE JoinParts(_)
JoinParts(parts) ==
    IF Len(parts) = 1 THEN parts[1]
    ELSE parts[1] \o <<":">> \o JoinParts(SubSeq(parts, 2, Len(parts)))

\* the region strings examined: every name of SIZES as it is and in capitals,
\* rectangles of four parts, parseable or not, and strings of fewer and of
\* more parts
RegionInputs ==
    SizeNames
    \cup { [i \in 1..Len(nm) |-> UpperChar(nm[i])] : nm \in SizeNames }
    \cup { JoinParts(ps) : ps \in [1..4 -> RectTokens \cup BadTokens] }
    \cup UNION { { JoinParts(ps) : ps \in [1..k -> {<<"1", "c", "m">>, <<"2", "c", "m">>}] } :
                    k \in (1..MaxParts) \ {4} }
    \cup { <<"1", "c", "m", ":", "1", "c", "m", ":", "2", "c", "m", ":", "2", "c", "m">>,
      <<"1", "c", "m", ":", "1", ".", "5", "c", "m", ":", "1", "0", "c", "m", ":", "2", "0", "c", "m">>,
      <<"0", "i", "n", ":", "0", "i", "n", ":", "8", ".", "5", "i", "n", ":", "1", "1", "i", "n">>,
      <<"1", "0", "m", "m", ":", "1", "0", "m", "m", ":", "1", "0", "0", "m", "m", ":", "1", "5", "0", "m", "m">>,
      <<"1", "c", "m", ":", "1", "c", "m", ":", "2", "c", "m">>,
      <<"1", "c", "m", ":", "1", "c", "m", ":", "2", "c", "m", ":", "2", "c", "m", ":", "3", "c", "m">>,
      <<"1", "c", "m", ":", "1", "c", "m", ":", "2", "c", "m", ":", "w", "i", "d", "e">>,
      <<"f", "o", "o">>,
      <<>> }

InitRegion ==
    /\ pc = "parse_region"
    /\ RunIdle
    /\ fn_in \in RegionInputs
    /\ fn_out = <<>>

\* main, lines 444-446
ParseRegionStep ==
    /\ pc = "parse_region"
    /\ fn_out' = <<ParseRegion(fn_in)>>
    /\ pc' = "done"
    /\ UNCHANGED <<config, job_region, discovery,
                   props, base_url, npages, served, location, job_uri,
                   job_uuid, page, status, jobinfo, files, reqs, raised, fn_in>>

NextRegion == ParseRegionStep

SpecRegion == InitRegion /\ [][NextRegion]_vars

----------------------------------------------------------------------------
(* process_filename and the files a run writes.  The directory of the     *)
(* target (SCAN_DIRECTORY joined in front, Path.parent) is the same for    *)
(* every path here, so a path is its last component.                       *)

\* line 417: f"{original_path.stem} {counter}{original_path.suffix}"
IncrementedFilename(original_path, counter) ==
    PathStem(original_path) \o <<" ">> \o IntToStr(counter)
        \o PathSuffix(original_path)

\* lines 415-417 from counter on: the first incremented path that does
\* not exist among the names exists
RECURSIVE NextFree(_, _, _)
NextFree(original_path, counter, exists) ==
    IF IncrementedFilename(original_path, counter) \notin exists
    THEN IncrementedFilename(original_path, counter)
    ELSE NextFree(original_path, counter + 1, exists)

\* process_filename, lines 410-419
ProcessFilename(filename, exists) ==
    IF filename \notin exists THEN filename
    ELSE NextFree(filename, 1, exists)

\* the filename arguments examined: with and without a suffix
FileArguments == { <<"s", ".", "j", "p", "g">>, <<"s">> }

\* names that may be in the directory before the run
NamesBefore ==
    { <<"s", ".", "j", "p", "g">>,
      <<"s", " ", "1", ".", "j", "p", "g">>,
      <<"s", " ", "2", ".", "j", "p", "g">>,
      <<"s", "-", "1", ".", "j", "p", "g">>,
      <<"s">>,
      <<"s", " ", "1">>,
      <<"s", "-", "2">> }

\* a run starts: fn_in is the filename argument and the names in the
\* directory; every file there holds content 0, which no document is
InitFiles ==
    /\ pc = "process_filename"
    /\ fn_in \in [filename : FileArguments, exists : SUBSET NamesBefore]
    /\ config \in [format : {"pdf", "jpeg"}, duplex : {FALSE},
                   region : {<<>>}, filename : {<<>>}]
    /\ files = {[name |-> n, data |-> 0] : n \in fn_in.exists}
    /\ job_region = <<>>
    /\ discovery = NoDiscovery
    /\ props = [duplex |-> Absent]
    /\ base_url = ""
    /\ npages = 0
    /\ served = 0
    /\ location = <<>>
    /\ job_uri = <<>>
    /\ job_uuid = <<>>
    /\ page = 0
    /\ status = ""
    /\ jobinfo = <<>>
    /\ reqs = <<>>
    /\ raised = NoException
    /\ fn_out = <<>>

\* main, line 438, and line 454 where ScanJob takes the path; execute,
\* line 266, sets the page counter
ProcessFilenameStep ==
    /\ pc = "process_filename"
    /\ config' = [config EXCEPT
                    !.filename = ProcessFilename(fn_in.filename,
                                                 {f.name : f \in files})]
    /\ page' = 1
    /\ pc' = "save"
    /\ UNCHANGED <<job_region, discovery, props, base_url, npages, served,
                   location, job_uri, job_uuid, status, jobinfo, files, reqs,
                   raised, fn_in, fn_out>>

\* execute, lines 276-277: the document retrieved next is written and the
\* page counter moves on
SaveStep ==
    /\ pc = "save"
    /\ page <= MaxPages
    /\ files' = SaveDocument(files, config.filename, config.format, page, page)
    /\ page' = page + 1
    /\ UNCHANGED <<pc, config, job_region, discovery, props, base_url, npages,
                   served, location, job_uri, job_uuid, status, jobinfo, reqs,
                   raised, fn_in, fn_out>>

NextFiles == ProcessFilenameStep \/ SaveStep

SpecFiles == InitFiles /\ [][NextFiles]_vars

----------------------------------------------------------------------------

(* combiner.py: combine_files.  fn_in is what the input directory holds   *)
(* (how many matching images and PDFs, whether a temp_images.pdf was left  *)
(* there, whether the combined PDF comes out above the threshold); files   *)
(* holds the temporary file and the output file; fn_out is the progress of *)
(* the call.  Opening an image, saving the temporary PDF, writing and      *)
(* compressing the output may each fail: the outcome is chosen at the step.*)

\* input_directory / "temp_images.pdf", line 166
TempPdf == "temp_images.pdf"

\* output_file
OutputPdf == "combined.pdf"

\* cleanup_temp_files that leaves the file
CleanupTempFiles_Keep(fs) == fs

\* cleanup_temp_files, lines 134-140
CleanupTempFiles(fs) == {f \in fs : f.name # TempPdf}

\* open(..., 'wb')-like creation of name with content data
WriteFile(fs, name, data) ==
    {f \in fs : f.name # name} \cup {[name |-> name, data |-> data]}

InitCombine ==
    /\ pc = "get_sorted_files"
    /\ fn_in \in [images : 0..MaxScans, pdfs : 0..MaxScans,
                  temp_before : BOOLEAN, big : BOOLEAN]
    /\ files = IF fn_in.temp_before
               THEN {[name |-> TempPdf, data |-> "left over"]} ELSE {}
    /\ fn_out = [images |-> 0, pending |-> FALSE, written |-> FALSE,
                 checked |-> FALSE, compressed |-> FALSE]
    /\ config = [format |-> "pdf", duplex |-> FALSE, region |-> <<>>,
                 filename |-> MainFilename]
    /\ job_region = <<>>
    /\ discovery = NoDiscovery
    /\ props = [duplex |-> Absent]
    /\ base_url = ""
    /\ npages = 0
    /\ served = 0
    /\ location = <<>>
    /\ job_uri = <<>>
    /\ job_uuid = <<>>
    /\ page = 0
    /\ status = ""
    /\ jobinfo = <<>>
    /\ reqs = <<>>
    /\ raised = NoException

\* combine_files, lines 152-155: no matching file, no work
GetSortedFiles ==
    /\ pc = "get_sorted_files"
    /\ pc' = IF fn_in.images + fn_in.pdfs = 0 THEN "done" ELSE "process_images"
    /\ UNCHANGED <<config, job_region, discovery, props, base_url, npages,
                   served, location, job_uri, job_uuid, page, status, jobinfo,
                   files, reqs, raised, fn_in, fn_out>>

\* lines 158-162 with process_images: an image that does not open is
\* skipped with a warning
ProcessImages ==
    /\ pc = "process_images"
    /\ \E opened \in 0..fn_in.images : fn_out' = [fn_out EXCEPT !.images = opened]
    /\ pc' = "combine_images"
    /\ UNCHANGED <<config, job_region, discovery, props, base_url, npages,
                   served, location, job_uri, job_uuid, page, status, jobinfo,
                   files, reqs, raised, fn_in>>

\* lines 170-173: with images, the temporary PDF is saved and appended to
\* the merger.  save may raise before or after it created the file, append
\* may raise; the exception is pending while the finally clause runs.
CombineImages ==
    /\ pc = "combine_images"
    /\ IF fn_out.images = 0
       THEN /\ pc' = "write_final_pdf"
            /\ UNCHANGED <<files, fn_out>>
       ELSE \/ /\ files' = WriteFile(files, TempPdf, "images")
               /\ pc' = "write_final_pdf"
               /\ UNCHANGED fn_out
            \/ /\ \E created \in BOOLEAN :
                     files' = IF created THEN WriteFile(files, TempPdf, "partial")
                              ELSE files
               /\ fn_out' = [fn_out EXCEPT !.pending = TRUE]
               /\ pc' = "finally"
    /\ UNCHANGED <<config, job_region, discovery, props, base_url, npages,
                   served, location, job_uri, job_uuid, page, status, jobinfo,
                   reqs, raised, fn_in>>

\* lines 176-179: append_pdfs swallows its errors; write_final_pdf writes
\* the output or prints the error and raises it again
WriteFinalPdf ==
    /\ pc = "write_final_pdf"
    /\ \/ /\ files' = WriteFile(files, OutputPdf, "combined")
          /\ fn_out' = [fn_out EXCEPT !.written = TRUE]
       \/ /\ \E created \in BOOLEAN :
                files' = IF created THEN WriteFile(files, OutputPdf, "partial")
                         ELSE files
          /\ fn_out' = [fn_out EXCEPT !.pending = TRUE]
    /\ pc' = "finally"
    /\ UNCHANGED <<config, job_region, discovery, props, base_url, npages,
                   served, location, job_uri, job_uuid, page, status, jobinfo,
                   reqs, raised, fn_in>>

\* lines 181-184: the finally clause, then the pending exception leaves
\* combine_files or the call goes on to line 187
CombineFinally ==
    /\ pc = "finally"
    /\ files' = CleanupTempFiles(files)
    /\ IF fn_out.pending
       THEN /\ pc' = "done"
            /\ raised' = [exc |-> "Exception", msg |-> "", at |-> pc,
                          printed |-> ""]
       ELSE /\ pc' = "check_pdf_size"
            /\ UNCHANGED raised
    /\ UNCHANGED <<config, job_region, discovery, props, base_url, npages,
                   served, location, job_uri, job_uuid, page, status, jobinfo,
                   reqs, fn_in, fn_out>>

\* line 187 with check_pdf_size_and_compress, lines 116-131: an output
\* above the threshold is compressed, and replaced when compress_pdf left
\* a compressed file
CheckPdfSize ==
    /\ pc = "check_pdf_size"
    /\ IF (\E f \in files : f.name = OutputPdf) /\ fn_in.big
       THEN \E compressed \in BOOLEAN :
               /\ files' = IF compressed
                           THEN WriteFile(files, OutputPdf, "compressed")
                           ELSE files
               /\ fn_out' = [fn_out EXCEPT !.checked = TRUE,
                                           !.compressed = compressed]
       ELSE /\ fn_out' = [fn_out EXCEPT !.checked = TRUE]
            /\ UNCHANGED files
    /\ pc' = "done"
    /\ UNCHANGED <<config, job_region, discovery, props, base_url, npages,
                   served, location, job_uri, job_uuid, page, status, jobinfo,
                   reqs, raised, fn_in>>

NextCombine ==
    \/ GetSortedFiles
    \/ ProcessImages
    \/ CombineImages
    \/ WriteFinalPdf
    \/ CombineFinally
    \/ CheckPdfSize

SpecCombine == InitCombine /\ [][NextCombine]_vars

----------------------------------------------------------------------------

(* main() as a whole *)

\* main, lines 443-446: --region, when given and not empty, is parsed
\* before the client is made
ParseRegionMain ==
    /\ pc = "region"
    /\ IF config.region = <<>> \/ config.region[1] = <<>>
       THEN /\ pc' = "discover"
            /\ UNCHANGED <<job_region, raised>>
       ELSE LET r == ParseRegion(config.region[1])
            IN  IF r.exc = "none"
                THEN /\ job_region' = r.region
                     /\ pc' = "discover"
                     /\ UNCHANGED raised
                ELSE /\ pc' = "done"
                     /\ raised' = Raised(r.exc, "Could not parse region")
                     /\ UNCHANGED job_region
    /\ UNCHANGED <<config, discovery, props, base_url, npages, served,
                   location, job_uri, job_uuid, page, status, jobinfo, files,
                   reqs, fn_in, fn_out>>

Next ==
    \/ ParseRegionMain
    \/ DiscoverPoll
    \/ AddService
    \/ DiscoverClose
    \/ Capabilities
    \/ Probe
    \/ Submit
    \/ PollStatus
    \/ FetchDocument
    \/ Finalize

Spec == Init /\ [][Next]_vars

----------------------------------------------------------------------------
(* ScanJob.execute on its own *)

\* the run when main calls job.execute (line 455): no region, one scanner
\* discovered, its capabilities fetched and its status probed Idle
InitExecute ==
    /\ pc = "submit"
    /\ config \in [format : {"pdf", "jpeg"}, duplex : {FALSE},
                   region : {<<>>}, filename : {MainFilename}]
    /\ job_region = <<>>
    /\ discovery = NoDiscovery
    /\ props = [duplex |-> "T"]
    /\ base_url = "http://a:80/eSCL"
    /\ npages = 0
    /\ served = 0
    /\ location = <<>>
    /\ job_uri = <<>>
    /\ job_uuid = <<>>
    /\ page = 0
    /\ status = ""
    /\ jobinfo = <<>>
    /\ files = {}
    /\ reqs = << [at |-> "caps", req |-> "GET ScannerCapabilities", resp |-> "200"],
                 [at |-> "probe", req |-> "GET ScannerStatus", resp |-> "Idle"] >>
    /\ raised = NoException
    /\ fn_in = <<>>
    /\ fn_out = <<>>

NextExecute ==
    \/ Submit
    \/ PollStatus
    \/ FetchDocument
    \/ Finalize

\* execute runs on: a step of its poll loop that can be taken is taken
SpecExecute ==
    InitExecute /\ [][NextExecute]_vars
        /\ WF_vars(PollStatus) /\ WF_vars(FetchDocument)

----------------------------------------------------------------------------
(* What the log and the directory show *)

\* the positions of the log that hold request req
Issued(req) == {i \in 1..Len(reqs) : reqs[i].req = req}

\* the pwg:State values the probe's status fetch reported (none or one)
ProbeStates == {reqs[i].resp : i \in {j \in 1..Len(reqs) : reqs[j].at = "probe"}}

\* the poll loop of execute is over and _check_final_status was called
LoopEnded == pc = "final" \/ \E i \in 1..Len(reqs) : reqs[i].at = "final"

\* every snapshot the poll loop fetched so far reported Processing
AllPollsProcessing ==
    \A i \in 1..Len(reqs) : reqs[i].at = "poll" => reqs[i].resp = "Processing"

FileNames == {f.name : f \in files}

\* the page files of pages 1..k of this run
PageFiles(k) == {PageFilename(config.filename, i) : i \in 1..k}

\* _check_final_status found this job's record
FinalRecordFound == pc = "done" /\ jobinfo # <<>>

\* the first completion reason a job record states, None when it states none
FirstReasonOf(rec) ==
    IF rec.Reasons.kind = "single" \/ rec.Reasons.kind = "list"
    THEN Head(rec.Reasons.vals)
    ELSE None

----------------------------------------------------------------------------
(* Claims about the run *)

\* C1: when the probe's status fetch reports a pwg:State other than Idle, the
\* run is over with ScannerBusyError and no POST ScanJobs is ever issued.
C1_BusyProbeNeverSubmits ==
    (\E st \in ProbeStates : st \in DevStates \ {"Idle"})
        => /\ pc = "done"
           /\ raised.exc = "ScannerBusyError"
           /\ Issued("POST ScanJobs") = {}

C1_Witness ==
    /\ "Stopped" \in ProbeStates
    /\ pc = "done"
    /\ raised.exc = "ScannerBusyError"

C3_AtMostNFetches == Cardinality(Issued("GET NextDocument")) <= npages

\* C3 amended: the run issues at most npages + 1 NextDocument requests, and
\* none after the one answered 404.
C3_NoFetchAfter404 ==
    /\ Cardinality(Issued("GET NextDocument")) <= npages + 1
    /\ \A i \in Issued("GET NextDocument") :
          reqs[i].resp = "404" =>
              \A j \in Issued("GET NextDocument") : j <= i

C3_Witness ==
    /\ pc = "done"
    /\ npages >= 1
    /\ Cardinality(Issued("GET NextDocument")) = npages + 1
    /\ \E i \in Issued("GET NextDocument") : reqs[i].resp = "404"

\* C4: when the final status fetch finds the job's record and the first
\* completion reason of the record is JobCompletedSuccessfully, nothing is
\* raised, whatever pwg:JobState the record carries.
C4_SuccessReasonSucceeds ==
    (FinalRecordFound /\ FirstReasonOf(jobinfo[1]) = Success)
        => raised.exc = "none"

C4_Witness ==
    /\ FinalRecordFound
    /\ jobinfo[1].Reasons.vals = <<Success, Canceled>>
    /\ jobinfo[1].JobState = "Processing"
    /\ raised.exc = "none"

\* C5: when the record found by the final status fetch states a first
\* completion reason other than JobCompletedSuccessfully, ScanJobError is
\* raised, for every pwg:JobState.
C5_OtherReasonFails ==
    (FinalRecordFound /\ FirstReasonOf(jobinfo[1]) \notin {None, Success})
        => raised.exc = "ScanJobError"

\* C6: when the record found by the final status fetch states no completion
\* reason and its pwg:JobState is neither Completed nor Aborted (or is
\* missing), ScanJobError is raised and carries the job-state string.
C6_NoReasonUnfinishedFails ==
    (/\ FinalRecordFound
     /\ FirstReasonOf(jobinfo[1]) = None
     /\ jobinfo[1].JobState \notin {"Completed", "Aborted"})
        => /\ raised.exc = "ScanJobError"
           /\ raised.msg = IF jobinfo[1].JobState = Absent THEN "Unknown"
                            ELSE jobinfo[1].JobState

\* u with a leading "urn:uuid:" removed, if it starts with one
WithoutUrnPrefix(u) ==
    LET n == Len(uuid_prefix)
    IN  IF Len(u) >= n /\ \A k \in 1..n : u[k] = uuid_prefix[k]
        THEN [k \in 1..(Len(u) - n) |-> u[k + n]]
        ELSE u

\* the final path segment of uri: what follows its last "/"
FinalSegment(uri) ==
    LET k == CHOOSE k \in 1..(Len(uri) + 1) :
                 /\ \A i \in k..Len(uri) : uri[i] # "/"
                 /\ k = 1 \/ uri[k - 1] = "/"
    IN  [i \in 1..(Len(uri) - k + 1) |-> uri[i + k - 1]]

\* the positions of the records of the fetched document that are this job's
MatchingRecords ==
    {i \in 1..Len(fn_in.resp.Jobs.list) :
        WithoutUrnPrefix(fn_in.resp.Jobs.list[i].JobUuid) = FinalSegment(fn_in.location)}

\* the lookup has been made on a document that the device did send
LookedUp == fn_out # <<>> /\ fn_in.resp.http = "ok"

\* C7: the lookup returns a record exactly when some record's pwg:JobUuid,
\* with a leading "urn:uuid:" removed, equals the final path segment of the
\* Location URI; the record returned is the first such record, and a record
\* whose stripped uuid differs is never returned.
C7_LookupMatchesStrippedUuid ==
    (LookedUp /\ fn_in.resp.Jobs.shape = "list") =>
        IF MatchingRecords = {}
        THEN fn_out[1].jobinfo = <<>> /\ fn_out[1].exc # "none"
        ELSE /\ fn_out[1].exc = "none"
             /\ fn_out[1].jobinfo =
                    <<fn_in.resp.Jobs.list[
                        CHOOSE i \in MatchingRecords : \A j \in MatchingRecords : i <= j]>>

C7_Witness ==
    /\ LookedUp
    /\ fn_out[1].exc = "none"
    /\ Len(fn_in.resp.Jobs.list) = 3
    /\ fn_in.resp.Jobs.list[1].JobUuid = <<"x">> \o uuid_prefix \o <<"a">>
    /\ fn_in.resp.Jobs.list[2].JobUuid = uuid_prefix \o <<"a">>
    /\ fn_out[1].jobinfo[1].JobUuid = uuid_prefix \o <<"a">>

\* C8: a status fetch with a job identifier that finds no matching record
\* raises ScanJobError, for a document of zero, one or many jobs.
C8_NoMatchRaisesScanJobError ==
    (LookedUp /\ (fn_in.resp.Jobs.shape # "list" \/ MatchingRecords = {}))
        => fn_out[1].exc = "ScanJobError"

\* the named size that region names
SizeOf(region) == CHOOSE sz \in SIZES : sz.name = region

\* a length given in hundredths of an inch or of a millimetre, in device
\* units: 300 to the inch, 25.4 mm to the inch, the fraction dropped
InDeviceUnits(hundredths, unit) ==
    IF unit = "in" THEN (hundredths * 300) \div 100
    ELSE (hundredths * 300 * 10) \div (100 * 254)

\* the number of a token of SIZES, in hundredths
Hundredths(token) ==
    LET k   == Len(token) - 2
        num == SubSeq(token, 1, k)
        dot == {i \in 1..k : num[i] = "."}
    IN  IF dot = {} THEN 100 * DigitsToInt(num)
        ELSE LET i == CHOOSE i \in dot : TRUE
             IN  100 * DigitsToInt(SubSeq(num, 1, i - 1))
                 + (IF k - i = 1 THEN 10 ELSE 1) * DigitsToInt(SubSeq(num, i + 1, k))

UnitOf(token) == IF token[Len(token)] = "n" THEN "in" ELSE "mm"

\* C10: for every known paper-size name parse_region returns x = 0, y = 0 and
\* the width and height of the size at 300 device units per inch, truncated
\* toward zero; for letter (8.5 x 11 in) it returns 0, 0, 2550, 3300.
C10_NamedSizeRegion ==
    (fn_out # <<>> /\ fn_in \in SizeNames) =>
        /\ fn_out[1].exc = "none"
        /\ fn_out[1].region =
              <<[x |-> 0, y |-> 0,
                 width  |-> InDeviceUnits(Hundredths(SizeOf(fn_in).w), UnitOf(SizeOf(fn_in).w)),
                 height |-> InDeviceUnits(Hundredths(SizeOf(fn_in).h), UnitOf(SizeOf(fn_in).h))]>>
        /\ fn_in = <<"l", "e", "t", "t", "e", "r">> =>
              fn_out[1].region = <<[x |-> 0, y |-> 0, width |-> 2550, height |-> 3300]>>

C10_Witness ==
    /\ fn_in = <<"a", "4">>
    /\ fn_out # <<>>
    /\ fn_out[1].region = <<[x |-> 0, y |-> 0, width |-> 2480, height |-> 3507]>>

\* the number of colon-separated parts of a region string
PartCount(region) == Cardinality({i \in 1..Len(region) : region[i] = ":"}) + 1

\* part k of a region string: what lies between its colons k - 1 and k
PartOf(region, k) ==
    LET colons == {i \in 1..Len(region) : region[i] = ":"}
        before(i) == Cardinality({j \in colons : j < i})
        own == {i \in 1..Len(region) : region[i] # ":" /\ before(i) = k - 1}
    IN  IF own = {} THEN <<>>
        ELSE SubSeq(region, CHOOSE i \in own : \A j \in own : i <= j,
                            CHOOSE i \in own : \A j \in own : j <= i)

\* a token reads as a length: digits with at most one point, then cm, mm, in
\* or pt
ReadsAsLength(token) ==
    /\ Len(token) >= 3
    /\ SubSeq(token, Len(token) - 1, Len(token))
          \in { <<"c", "m">>, <<"m", "m">>, <<"i", "n">>, <<"p", "t">> }
    /\ \A i \in 1..(Len(token) - 2) : token[i] \in DigitChars \cup {"."}
    /\ Cardinality({i \in 1..(Len(token) - 2) : token[i] = "."}) <= 1
    /\ \E i \in 1..(Len(token) - 2) : token[i] \in DigitChars

\* such a token in device units: its length in inches times 300, the
\* fraction dropped (2.54 cm and 72.27 pt to the inch)
LengthInDeviceUnits(token) ==
    LET k    == Len(token) - 2
        unit == SubSeq(token, k + 1, k + 2)
        dot  == {i \in 1..k : token[i] = "."}
        n    == DigitsToInt(SelectSeq(SubSeq(token, 1, k), LAMBDA ch : ch # "."))
        den  == IF dot = {} THEN 1 ELSE Pow10(k - (CHOOSE i \in dot : TRUE))
    IN  CASE unit = <<"i", "n">> -> (n * 300) \div den
          [] unit = <<"c", "m">> -> (n * 30000) \div (den * 254)
          [] unit = <<"m", "m">> -> (n * 3000) \div (den * 254)
          [] unit = <<"p", "t">> -> (n * 30000) \div (den * 7227)

\* region is a rectangle of four lengths
IsRectangle(region) ==
    PartCount(region) = 4 /\ \A k \in 1..4 : ReadsAsLength(PartOf(region, k))

\* C11: for a rectangle "x:y:width:height" of four lengths, such as
\* "1cm:1cm:2cm:2cm", each coordinate parse_region returns is the part's
\* length in inches times 300, truncated toward zero.
C11_RectangleRegion ==
    (fn_out # <<>> /\ IsRectangle(fn_in)) =>
        /\ fn_out[1].exc = "none"
        /\ fn_out[1].region =
              <<[x      |-> LengthInDeviceUnits(PartOf(fn_in, 1)),
                 y      |-> LengthInDeviceUnits(PartOf(fn_in, 2)),
                 width  |-> LengthInDeviceUnits(PartOf(fn_in, 3)),
                 height |-> LengthInDeviceUnits(PartOf(fn_in, 4))]>>
        /\ fn_in = <<"1", "c", "m", ":", "1", "c", "m", ":", "2", "c", "m", ":", "2", "c", "m">> =>
              fn_out[1].region = <<[x |-> 118, y |-> 118, width |-> 236, height |-> 236]>>

C11_Witness ==
    /\ fn_in = <<"1", "c", "m", ":", "1", ".", "5", "c", "m", ":", "3", "6", "p", "t", ":", "5", "c", "m">>
    /\ fn_out # <<>>
    /\ fn_out[1].region = <<[x |-> 118, y |-> 177, width |-> 149, height |-> 590]>>

\* C12: parse_region raises, and returns no ScanRegion, for every input that
\* is no paper-size name and has fewer or more than four colon-separated
\* parts, and for every input of four parts of which one is no length.
C12_MalformedRegionFails ==
    (/\ fn_out # <<>>
     /\ Lower(fn_in) \notin SizeNames
     /\ \/ PartCount(fn_in) # 4
        \/ \E k \in 1..4 : ~ReadsAsLength(PartOf(fn_in, k)))
        => fn_out[1] = [exc |-> "ScannerError", region |-> <<>>]

C12_WitnessParts ==
    /\ fn_in = <<"1", "c", "m", ":", "1", "c", "m", ":", "2", "c", "m", ":", "2", "c", "m", ":", "3", "c", "m">>
    /\ fn_out = <<[exc |-> "ScannerError", region |-> <<>>]>>

C12_Witness ==
    /\ PartCount(fn_in) = 4
    /\ PartOf(fn_in, 3) = <<"2", "x", "x">>
    /\ \A k \in {1, 2, 4} : ReadsAsLength(PartOf(fn_in, k))
    /\ fn_out = <<[exc |-> "ScannerError", region |-> <<>>]>>


\* which of the six error kinds ended the run, read from the step that
\* failed and from the log
HttpErrors == {"404", "500", "HTTPError"}

FailureKind ==
    CASE raised.at = "region"         -> "region-parse failure"
      [] raised.at = "discover_close" -> "discovery timeout"
      [] reqs # <<>> /\ reqs[Len(reqs)].resp \in HttpErrors
                                      -> "transport failure"
      [] raised.at = "probe" /\ reqs[Len(reqs)].resp # "Idle"
                                      -> "busy"
      [] raised.at = "probe"          -> "capability mismatch"
      [] OTHER                        -> "job failure"

\* the error kind that a heading of main announces
KindTold(heading) ==
    CASE heading = "Scanner Discovery Error"     -> "discovery timeout"
      [] heading = "Scanner Availability Error"  -> "busy"
      [] heading = "Scan Job Error"              -> "job failure"
      [] heading = "Scanner Configuration Error" -> "capability mismatch"
      [] OTHER                                   -> "transport failure"

\* C13: each of the six error kinds (discovery timeout, busy, capability
\* mismatch, region-parse failure, job failure, transport failure) reaches
\* main as a kind of its own, so that the heading main prints for a failed
\* run names the kind of failure that ended it.
C13_KindsDistinguishable ==
    (pc = "done" /\ raised.exc # "none")
        => KindTold(raised.printed) = FailureKind

\* request i of the log got an error HTTP response other than the 404 of
\* NextDocument
HttpFailure(i) ==
    /\ reqs[i].resp \in HttpErrors
    /\ ~(reqs[i].req = "GET NextDocument" /\ reqs[i].resp = "404")

\* C14: when a request of the run (ScannerCapabilities, ScannerStatus,
\* ScanJobs, NextDocument) gets an error HTTP response other than a 404 on
\* NextDocument, the run fails at once: that request is the last of the
\* run, nothing is re-issued and the run is over with the HTTP error.
C14_HttpErrorEndsRun ==
    \A i \in 1..Len(reqs) :
        HttpFailure(i) => /\ i = Len(reqs)
                          /\ pc = "done"
                          /\ raised.exc = "HTTPError"

\* a NextDocument fetch fails with 500 after a document was retrieved
C14_Witness ==
    /\ pc = "done"
    /\ served >= 1
    /\ reqs # <<>>
    /\ reqs[Len(reqs)].req = "GET NextDocument"
    /\ reqs[Len(reqs)].resp = "500"
    /\ raised.exc = "HTTPError"

\* the directory that writing documents 1..k, one after the other, leaves:
\* a page file per document in jpeg format, the target file with the
\* document written last in pdf format
FilesWritten(format, k) ==
    IF format = "pdf" THEN {[name |-> config.filename, data |-> k]}
    ELSE {[name |-> PageFilename(config.filename, i), data |-> i] : i \in 1..k}

\* C15: when a run fails after k >= 1 documents were written (a later
\* status or NextDocument error, a job that is not found, a failed
\* finalize), the files written for those documents are all there when
\* the run ends and hold what was written to them: the failure deleted
\* and changed nothing.
C15_PartialOutputKept ==
    (pc = "done" /\ raised.exc # "none" /\ page > 1)
        => files = FilesWritten(config.format, page - 1)

\* two page files are there after a finalize that failed
C15_Witness ==
    /\ pc = "done"
    /\ raised.exc = "ScanJobError"
    /\ raised.at = "final"
    /\ config.format = "jpeg"
    /\ page = 3
    /\ Cardinality(files) = 2

\* C16: discover_scanner ends its wait after at most 100 polls of the
\* listener; when no responder has answered by the time it leaves the wait,
\* it fails with ScannerNotFoundError, and a run that failed there has set
\* no base URL and issued no HTTP request.
C16_DiscoveryBounded ==
    /\ [](/\ discovery.polls <= 100
          /\ pc = "discover" => discovery.polls < 100)
    /\ [][(/\ pc = "discover_close"
           /\ pc' # "discover_close"
           /\ discovery.answers = <<>>)
              => /\ pc' = "done"
                 /\ raised'.exc = "ScannerNotFoundError"]_vars
    /\ []((pc = "done" /\ raised.at = "discover_close")
              => /\ raised.exc = "ScannerNotFoundError"
                 /\ base_url = ""
                 /\ reqs = <<>>)

\* the wait ran its 100 polls, nothing answered and discovery failed
C16_Witness ==
    /\ pc = "done"
    /\ raised.exc = "ScannerNotFoundError"
    /\ discovery.polls = 100
    /\ discovery.answers = <<>>

\* the positions of the callbacks that brought a responder's info
Answered == {i \in 1..Len(discovery.answers) : discovery.answers[i] # <<>>}

\* the info of the responder that answered first
FirstResponder ==
    discovery.answers[CHOOSE i \in Answered : \A j \in Answered : i <= j][1]

\* C17: however the add_service callbacks interleave with the polling loop,
\* when one or more responders answered within the window, discovery does
\* not fail and the endpoint it adopts is that of the first responder: a
\* later callback neither replaced nor cleared it.
C17_FirstResponderAdopted ==
    [][(/\ pc = "discover_close"
        /\ pc' # "discover_close"
        /\ Answered # {})
           => /\ pc' = "caps"
              /\ base_url' = FirstResponder.url
              /\ props' = FirstResponder.props]_vars

\* the request that stands at position i of a run that goes through
ExpectedRequest(i) ==
    CASE i = 1     -> "GET ScannerCapabilities"
      [] i = 2     -> "GET ScannerStatus"
      [] i = 3     -> "POST ScanJobs"
      [] i > 3 /\ i % 2 = 0 -> "GET ScannerStatus"
      [] OTHER     -> "GET NextDocument"

\* C18: the HTTP requests of a run form one sequence, each answered before
\* the next is issued, in the order GET ScannerCapabilities, GET
\* ScannerStatus, one POST ScanJobs, repetitions of (GET ScannerStatus, GET
\* NextDocument), one final GET ScannerStatus; nothing follows the final
\* status fetch, a run that succeeds ends with it, and the requests of a
\* run that fails are a prefix of such a sequence.
C18_RequestOrder ==
    /\ \A i \in 1..Len(reqs) :
          /\ reqs[i].req = ExpectedRequest(i)
          /\ reqs[i].at = "final" => (i = Len(reqs) /\ i > 3 /\ i % 2 = 0)
    /\ Cardinality(Issued("POST ScanJobs")) <= 1
    /\ (pc = "done" /\ raised.exc = "none")
          => (reqs # <<>> /\ reqs[Len(reqs)].at = "final")

\* a run of two loop iterations that succeeds: eight requests
C18_Witness ==
    /\ pc = "done"
    /\ raised.exc = "none"
    /\ Len(reqs) = 8

\* the positions of the log where NextDocument was answered with code
Fetched(code) ==
    {i \in 1..Len(reqs) :
        reqs[i].req = "GET NextDocument" /\ reqs[i].resp = code}

\* C19: once a NextDocument fetch is answered 404 the poll loop is over,
\* whatever device state the snapshot of that iteration reported: nothing
\* is written for that iteration (the directory holds the documents
\* retrieved before, one per 200 answer), no NextDocument request follows,
\* and the one request that may follow is the final status fetch.
C19_NoDocumentEndsLoop ==
    \A i \in Fetched("404") :
        /\ pc \in {"final", "done"}
        /\ \A j \in (i + 1)..Len(reqs) : j = i + 1 /\ reqs[j].at = "final"
        /\ page - 1 = Cardinality(Fetched("200"))
        /\ files = IF page = 1 THEN {}
                   ELSE FilesWritten(config.format, page - 1)

\* a 404 in an iteration whose snapshot reported Processing, after one
\* document, and the final status fetch that followed
C19_Witness ==
    \E i \in Fetched("404") :
        /\ reqs[i - 1].resp = "Processing"
        /\ Fetched("200") # {}
        /\ Len(reqs) = i + 1
        /\ reqs[i + 1].at = "final"

\* where the run went after request i: the step of the request that
\* followed, or the step the run is at when i is the last request
StepAfter(i) == IF i < Len(reqs) THEN reqs[i + 1].at ELSE pc

\* C20: after an iteration of the poll loop retrieved and wrote a document,
\* the loop makes another iteration if and only if the snapshot fetched in
\* that same iteration, just before the document fetch, reported
\* Processing; every iteration fetches its own snapshot and the snapshot of
\* an earlier iteration decides nothing.
C20_ContinuesIffProcessing ==
    \A i \in Fetched("200") :
        /\ reqs[i - 1].req = "GET ScannerStatus"
        /\ reqs[i - 1].at = "poll"
        /\ IF reqs[i - 1].resp = "Processing"
           THEN StepAfter(i) = "poll"
           ELSE StepAfter(i) = "final"

\* the first iteration's snapshot reported Processing and the loop went on;
\* the second iteration's reported Idle and the loop stopped after its
\* document
C20_Witness ==
    /\ Len(reqs) = 8
    /\ Fetched("200") = {5, 7}
    /\ reqs[4].resp = "Processing"
    /\ reqs[6].resp = "Idle"
    /\ reqs[8].at = "final"

\* "<stem>-i<suffix>" for the target s.jpg of the run and a page i < 10
PageFileOfRun(i) ==
    <<"s", "-">> \o << <<"1", "2", "3", "4", "5", "6", "7", "8", "9">>[i] >>
                 \o <<".", "j", "p", "g">>

\* C21: in jpeg format, at every point of the poll loop and after it, the
\* page counter is 1 plus the number of documents retrieved so far (it
\* starts at 1 and grows by one per document written), and the files
\* written are exactly <stem>-1<suffix> .. <stem>-k<suffix> for the k
\* documents retrieved, file i holding the i-th document.
C21_PageFilesInJpeg ==
    /\ pc \in {"poll", "fetch", "final"} => page >= 1
    /\ (config.format = "jpeg" /\ page >= 1)
          => /\ page = 1 + Cardinality(Fetched("200"))
             /\ files = {[name |-> PageFileOfRun(i), data |-> i] :
                            i \in 1..(page - 1)}

\* in the loop, two documents retrieved: s-1.jpg and s-2.jpg are there
C21_Witness ==
    /\ config.format = "jpeg"
    /\ pc = "fetch"
    /\ page = 3
    /\ files = {[name |-> <<"s", "-", "1", ".", "j", "p", "g">>, data |-> 1],
                [name |-> <<"s", "-", "2", ".", "j", "p", "g">>, data |-> 2]}

\* C22: in pdf format, once the poll loop has retrieved k >= 1 documents,
\* the run has written the one target file and no page file, and that file
\* holds the whole output of the job: every one of the k documents.
C22_OneCombinedPdf ==
    (config.format = "pdf" /\ page > 1)
        => /\ FileNames = {config.filename}
           /\ \A i \in 1..(page - 1) :
                 \E f \in files : f.name = config.filename /\ f.data = i

\* C23: when the record found by the final status fetch has no
\* pwg:JobStateReasons field at all, _check_final_status raises nothing and
\* the run succeeds, whatever pwg:JobState the record carries or lacks.
C23_NoReasonFieldSucceeds ==
    (FinalRecordFound /\ jobinfo[1].Reasons.kind = "absent")
        => raised.exc = "none"

\* a record without the field whose job state is still Processing
C23_Witness ==
    /\ FinalRecordFound
    /\ jobinfo[1].Reasons.kind = "absent"
    /\ jobinfo[1].JobState = "Processing"
    /\ raised.exc = "none"

\* C24: execute terminates.  With a device that serves finitely many
\* documents before it answers NextDocument with 404 or an error, a poll
\* loop that was entered ends: the final status check is reached or an
\* error is raised.  And once a snapshot reports a state other than
\* Processing, the loop makes no iteration beyond that one.
C24_ExecuteTerminates ==
    /\ (pc = "poll") ~> (pc \in {"final", "done"})
    /\ [](\A i \in 1..Len(reqs) :
            (reqs[i].at = "poll" /\ reqs[i].resp \in DevStates \ {"Processing"})
                => \A j \in (i + 2)..Len(reqs) : reqs[j].at = "final")

\* the loop ended after MaxPages documents and a 404, every snapshot having
\* reported Processing
C24_Witness ==
    /\ pc = "final"
    /\ AllPollsProcessing
    /\ Cardinality(Fetched("200")) = 2
    /\ Fetched("404") # {}

\* the paths the run has written: those that hold a document
Written == {f.name : f \in {g \in files : g.data # 0}}

\* C25: process_filename returns a path that does not exist: the original
\* path if that does not exist, else "<stem> <n><suffix>" for the smallest
\* n >= 1 whose path does not exist; and so a run never writes to a path
\* that existed before it started.
C25_NeverWritesExisting ==
    pc = "save"
        => /\ config.filename \notin fn_in.exists
           /\ \/ config.filename = fn_in.filename
              \/ /\ fn_in.filename \in fn_in.exists
                 /\ \E n \in 1..(Cardinality(fn_in.exists) + 1) :
                       /\ config.filename = IncrementedFilename(fn_in.filename, n)
                       /\ \A m \in 1..(n - 1) :
                             IncrementedFilename(fn_in.filename, m) \in fn_in.exists
           /\ Written \cap fn_in.exists = {}

\* C26: when combine_files found one or more matching files, however it
\* ends (it returns, or saving the temporary PDF or writing the combined
\* PDF raised), temp_images.pdf is not in the input directory afterwards;
\* and the size check and the compression run only after write_final_pdf
\* wrote the output.
C26_TempPdfRemoved ==
    /\ (pc = "done" /\ fn_in.images + fn_in.pdfs >= 1)
          => \A f \in files : f.name # TempPdf
    /\ (fn_out.checked \/ fn_out.compressed \/ pc = "check_pdf_size")
          => (fn_out.written /\ ~fn_out.pending)

\* images went into a temporary PDF, writing the combined PDF raised, and
\* the temporary PDF is gone
C26_Witness ==
    /\ pc = "done"
    /\ raised.exc = "Exception"
    /\ fn_out.images >= 1
    /\ fn_out.pending
    /\ ~fn_out.written
    /\ ~fn_out.checked
    /\ \A f \in files : f.name # TempPdf
    /\ \E f \in files : f.name = OutputPdf /\ f.data = "partial"

\* C9: when duplex is requested and the probe reaches its duplex check with
\* an advertised flag that is not T, the run ends with ScannerError and no
\* POST ScanJobs is issued.
C9_DuplexUnsupportedFails ==
    (/\ config.duplex
     /\ "Idle" \in ProbeStates
     /\ props.duplex # "T")
        => /\ pc = "done"
           /\ raised.exc = "ScannerError"
           /\ Issued("POST ScanJobs") = {}

====
